---- MODULE Spec2Model ----
(***************************************************************************)
(* Model of helper2 (src/cmd/helper2/main.go): the chat turn handler,      *)
(* the entity store (caregivers, patients, chat_history, skills, matches)  *)
(* and the history loaders.                                                *)
(*                                                                         *)
(* Every HTTP request runs handleChat in its own goroutine, so the         *)
(* handlers interleave between database statements.  One action is one     *)
(* database statement (each is atomic in the store) or one external call,  *)
(* together with the local computation that precedes it.  A database       *)
(* statement fails only on a PRIMARY KEY violation; I/O failures of the    *)
(* store are outside the model.                                            *)
(***************************************************************************)
EXTENDS Integers, Sequences, FiniteSets, TLC

VARIABLES now, caregivers, patients, chat_history, skills, matches,
          pc, sess, transcript, resp, entity, exists, response, outcome,
          nextMsg, asstAppended, rowWrites, loaded, arg, ret, chatRoom

vars == <<now, caregivers, patients, chat_history, skills, matches,
          pc, sess, transcript, resp, entity, exists, response, outcome,
          nextMsg, asstAppended, rowWrites, loaded, arg, ret, chatRoom>>

dbVars == <<caregivers, patients, chat_history, skills, matches>>

(* ---------------------------- bounds ----------------------------------- *)

\* total number of inbound turns in one behaviour
MaxTurns == 2

\* largest value of the wall clock
MaxTime == 2

\* App.maxHistory (100 in NewApp), scaled so that a log longer than the
\* limit is reachable
maxHistory == 2

\* the request goroutines that run handleChat concurrently
Procs == {1, 2}

Emails == {"caregiver1", "patient1"}

\* The handler treats every email alike, so the behaviours are the same up to
\* renaming the two participants: the first inbound message is taken to come
\* from this one.
FirstEmail == "caregiver1"

\* the text of the i-th inbound message; every turn carries a distinct text
MsgText(i) == "m" \o ToString(i)

systemPrompt == [role |-> "system", content |-> "systemPrompt"]

(* ------------------- JSON values of a tool call ------------------------ *)

\* A decoded JSON value (interface{}): its dynamic type, its number and its
\* string.  The text of a string value is a sequence of characters, so that
\* parsing, lower-casing and substring search are computed on it.
JAbsent == [t |-> "absent", n |-> 0, s |-> <<>>]
JNull == [t |-> "null", n |-> 0, s |-> <<>>]
JStr(x) == [t |-> "string", n |-> 0, s |-> x]
JNum(x) == [t |-> "number", n |-> x, s |-> <<>>]
JBool == [t |-> "bool", n |-> 0, s |-> <<>>]
\* an array of strings; items is the sequence of its strings
JArr(items) == [t |-> "array", n |-> 0, s |-> items]

NewYorkNY == <<"N", "e", "w", " ", "Y", "o", "r", "k", ",", " ", "N", "Y">>

Digits == <<"0", "1", "2", "3", "4", "5", "6", "7", "8", "9">>

DigitValue(c) == (CHOOSE i \in 1..10 : Digits[i] = c) - 1

IsDigit(c) == \E i \in 1..10 : Digits[i] = c

RECURSIVE DecimalValue(_)
DecimalValue(str) ==
    IF str = <<>> THEN 0
    ELSE 10 * DecimalValue(SubSeq(str, 1, Len(str) - 1)) + DigitValue(str[Len(str)])

ArgKeys == {"location", "rate_expectations", "budget", "arguments", "email",
            "patient_email"}

NoArgs == [k \in ArgKeys |-> JAbsent]

\* strconv.ParseFloat(v, 64) on an unsigned decimal integer; every other text
\* the model uses is not a number
ParseFloat(str) ==
    IF str # <<>> /\ \A i \in 1..Len(str) : IsDigit(str[i])
    THEN [ok |-> TRUE, f |-> DecimalValue(str)]
    ELSE [ok |-> FALSE, f |-> 0]

getStringArg(args, key, defaultValue) ==
    IF key \in DOMAIN args /\ args[key].t \notin {"absent", "null"}
       /\ args[key].t = "string"
    THEN args[key].s
    ELSE defaultValue

\* mutant: only JSON numbers are taken, a numeric string yields the default
getFloatArg_NumbersOnly(args, key, defaultValue) ==
    IF key \in DOMAIN args /\ args[key].t = "number" THEN args[key].n ELSE defaultValue

getFloatArg(args, key, defaultValue) ==
    IF key \in DOMAIN args /\ args[key].t \notin {"absent", "null"}
    THEN IF args[key].t = "number" THEN args[key].n
         ELSE IF args[key].t = "string" /\ ParseFloat(args[key].s).ok
              THEN ParseFloat(args[key].s).f
         ELSE defaultValue
    ELSE defaultValue

\* json.RawMessage of FunctionCall.Arguments: enc is the outer JSON shape,
\* inner the shape of the text inside an outer JSON string
RawArgs(enc, inner, obj) == [enc |-> enc, inner |-> inner, obj |-> obj]

GetArguments(raw) ==
    IF raw.enc = "object" THEN [ok |-> TRUE, args |-> raw.obj]
    ELSE IF raw.enc = "null" THEN [ok |-> TRUE, args |-> NoArgs]
    ELSE IF raw.enc # "string" THEN [ok |-> FALSE, args |-> NoArgs]
    ELSE IF raw.inner = "object" THEN [ok |-> TRUE, args |-> raw.obj]
    ELSE IF raw.inner = "null" THEN [ok |-> TRUE, args |-> NoArgs]
    ELSE [ok |-> FALSE, args |-> NoArgs]

(* --------------------------- the store --------------------------------- *)

\* mutant: the caregivers table without its PRIMARY KEY
InsertCaregiver_NoPrimaryKey(tbl, row) == [ok |-> TRUE, tbl |-> tbl \cup {row}]

\* INSERT INTO caregivers: email is the PRIMARY KEY
InsertCaregiver(tbl, row) ==
    IF \E r \in tbl : r.email = row.email
    THEN [ok |-> FALSE, tbl |-> tbl]
    ELSE [ok |-> TRUE, tbl |-> tbl \cup {row}]

\* mutant: the UPDATE also sets created_at
UpdateCaregiver_SetsCreatedAt(tbl, c) == {IF r.email = c.email THEN c ELSE r : r \in tbl}

\* UPDATE caregivers SET <every column but email and created_at> WHERE email = ?
UpdateCaregiver(tbl, c) ==
    {IF r.email = c.email
     THEN [c EXCEPT !.created_at = r.created_at]
     ELSE r : r \in tbl}

\* INSERT INTO patients: email is the PRIMARY KEY
InsertPatient(tbl, row) ==
    IF \E r \in tbl : r.email = row.email
    THEN [ok |-> FALSE, tbl |-> tbl]
    ELSE [ok |-> TRUE, tbl |-> tbl \cup {row}]

\* UPDATE patients SET <every column but email and created_at> WHERE email = ?
UpdatePatient(tbl, p) ==
    {IF r.email = p.email
     THEN [p EXCEPT !.created_at = r.created_at]
     ELSE r : r \in tbl}

\* SELECT email FROM <table> WHERE email = ?, iterated to set `exists`
RowExists(tbl, email) == \E r \in tbl : r.email = email

\* StoreCaregiver run without another statement in between: the existence
\* query, then the UPDATE or the INSERT
StoreCaregiver(tbl, c) ==
    IF RowExists(tbl, c.email)
    THEN [ok |-> TRUE, tbl |-> UpdateCaregiver(tbl, c)]
    ELSE InsertCaregiver(tbl, c)

\* StorePatient run without another statement in between
StorePatient(tbl, p) ==
    IF RowExists(tbl, p.email)
    THEN [ok |-> TRUE, tbl |-> UpdatePatient(tbl, p)]
    ELSE InsertPatient(tbl, p)

\* mutant: INSERT OR REPLACE on the key (email, created_at)
InsertChatHistory_Replace(tbl, row) ==
    [ok |-> TRUE,
     tbl |-> {r \in tbl : ~(r.email = row.email /\ r.created_at = row.created_at)}
             \cup {row}]

\* INSERT INTO chat_history: (email, created_at) is the PRIMARY KEY
InsertChatHistory(tbl, row) ==
    IF \E r \in tbl : r.email = row.email /\ r.created_at = row.created_at
    THEN [ok |-> FALSE, tbl |-> tbl]
    ELSE [ok |-> TRUE, tbl |-> tbl \cup {row}]

AddMessageWithRecipient(tbl, email, role, content, recipient, ts) ==
    InsertChatHistory(tbl, [email |-> email, role |-> role, content |-> content,
                            recipient |-> recipient, created_at |-> ts])

Message(r) == [role |-> r.role, content |-> r.content]

\* the rows of S as a sequence, created_at ascending
RECURSIVE OrderByCreatedAtAsc(_)
OrderByCreatedAtAsc(S) ==
    IF S = {} THEN <<>>
    ELSE LET r == CHOOSE x \in S : \A y \in S : x.created_at <= y.created_at
         IN <<r>> \o OrderByCreatedAtAsc(S \ {r})

\* the rows of S as a sequence, created_at descending
RECURSIVE OrderByCreatedAtDesc(_)
OrderByCreatedAtDesc(S) ==
    IF S = {} THEN <<>>
    ELSE LET r == CHOOSE x \in S : \A y \in S : x.created_at >= y.created_at
         IN <<r>> \o OrderByCreatedAtDesc(S \ {r})

Limit(s, n) == IF Len(s) <= n THEN s ELSE SubSeq(s, 1, n)

Reverse(s) == [i \in 1..Len(s) |-> s[Len(s) + 1 - i]]

\* mutant: the query without WHERE email = ?
GetUserMessages_AllEmails(tbl, email) ==
    LET rows == OrderByCreatedAtAsc(tbl)
    IN [i \in 1..Len(rows) |-> Message(rows[i])]

\* SELECT role, content FROM chat_history WHERE email = ? ORDER BY created_at ASC
GetUserMessages(tbl, email) ==
    LET rows == OrderByCreatedAtAsc({r \in tbl : r.email = email})
    IN [i \in 1..Len(rows) |-> Message(rows[i])]

\* mutant: ORDER BY created_at ASC LIMIT maxHistory, the head of the log
LoadChatHistory_HeadTruncate(tbl, email) ==
    LET rows == Limit(OrderByCreatedAtAsc({r \in tbl : r.email = email}), maxHistory)
    IN [i \in 1..Len(rows) |-> Message(rows[i])]

\* SELECT ... WHERE email = ? ORDER BY created_at DESC LIMIT maxHistory, reversed
LoadChatHistory(tbl, email) ==
    LET rows == Limit(OrderByCreatedAtDesc({r \in tbl : r.email = email}), maxHistory)
    IN Reverse([i \in 1..Len(rows) |-> Message(rows[i])])

(* ------------------------ lists and matches ---------------------------- *)

UpperCase == <<"A", "B", "C", "D", "E", "F", "G", "H", "I", "J", "K", "L", "M",
               "N", "O", "P", "Q", "R", "S", "T", "U", "V", "W", "X", "Y", "Z">>

LowerCase == <<"a", "b", "c", "d", "e", "f", "g", "h", "i", "j", "k", "l", "m",
               "n", "o", "p", "q", "r", "s", "t", "u", "v", "w", "x", "y", "z">>

LowerChar(c) ==
    IF \E i \in 1..26 : UpperCase[i] = c
    THEN LowerCase[CHOOSE i \in 1..26 : UpperCase[i] = c]
    ELSE c

\* SQL LOWER(text)
Lower(str) == [i \in 1..Len(str) |-> LowerChar(str[i])]

\* text LIKE pattern: % stands for any run of characters and _ for any one
\* character, wherever the pattern has them
RECURSIVE Like(_, _)
Like(text, pattern) ==
    IF pattern = <<>> THEN text = <<>>
    ELSE IF pattern[1] = "%"
         THEN Like(text, Tail(pattern)) \/ (text # <<>> /\ Like(Tail(text), pattern))
    ELSE /\ text # <<>>
         /\ pattern[1] = "_" \/ pattern[1] = text[1]
         /\ Like(Tail(text), Tail(pattern))

\* LOWER(location) LIKE LOWER(?), with "%" + location + "%" as the parameter
LocationLike(location, wanted) ==
    Like(Lower(location), Lower(<<"%">> \o wanted \o <<"%">>))

\* mutant: the rows ordered by rate_expectations descending
RECURSIVE OrderByRateAsc_Descending(_)
OrderByRateAsc_Descending(S) ==
    IF S = {} THEN <<>>
    ELSE LET r == CHOOSE x \in S : \A y \in S : x.rate_expectations >= y.rate_expectations
         IN <<r>> \o OrderByRateAsc_Descending(S \ {r})

\* the rows of S as a sequence, rate_expectations ascending
RECURSIVE OrderByRateAsc(_)
OrderByRateAsc(S) ==
    IF S = {} THEN <<>>
    ELSE LET r == CHOOSE x \in S : \A y \in S : x.rate_expectations <= y.rate_expectations
         IN <<r>> \o OrderByRateAsc(S \ {r})

\* the rows of S as a sequence, budget descending
RECURSIVE OrderByBudgetDesc(_)
OrderByBudgetDesc(S) ==
    IF S = {} THEN <<>>
    ELSE LET r == CHOOSE x \in S : \A y \in S : x.budget >= y.budget
         IN <<r>> \o OrderByBudgetDesc(S \ {r})

\* mutant: an empty match is reported as the not-found error
FindMatchingCaregivers_EmptyIsError(cgs, pts, patientEmail) ==
    LET found == {p \in pts : p.email = patientEmail}
        rows == OrderByRateAsc(
                    {c \in cgs : \E p \in found :
                                    /\ LocationLike(c.location, p.location)
                                    /\ c.rate_expectations <= p.budget})
    IN [found |-> rows # <<>>, rows |-> rows]

FindMatchingCaregivers(cgs, pts, patientEmail) ==
    IF ~\E p \in pts : p.email = patientEmail
    THEN [found |-> FALSE, rows |-> <<>>]
    ELSE LET patient == CHOOSE p \in pts : p.email = patientEmail
         IN [found |-> TRUE,
             rows |-> OrderByRateAsc(
                 {c \in cgs : /\ LocationLike(c.location, patient.location)
                              /\ c.rate_expectations <= patient.budget})]

FindMatchingPatients(cgs, pts, caregiverEmail) ==
    IF ~\E c \in cgs : c.email = caregiverEmail
    THEN [found |-> FALSE, rows |-> <<>>]
    ELSE LET caregiver == CHOOSE c \in cgs : c.email = caregiverEmail
         IN [found |-> TRUE,
             rows |-> OrderByBudgetDesc(
                 {p \in pts : /\ LocationLike(p.location, caregiver.location)
                              /\ p.budget >= caregiver.rate_expectations})]

\* the text of a list; the items rendered for the rows are left out
formatCaregiverList(n) ==
    IF n = 0 THEN "<p>No matching caregivers found.</p>" ELSE "<h3>Matching Caregivers</h3>"

formatPatientList(n) ==
    IF n = 0 THEN "<p>No matching patients found.</p>" ELSE "<h3>Matching Patients</h3>"


(* ----------------------- replies of the model -------------------------- *)

Args(loc, rate, budget) ==
    [k \in ArgKeys |-> IF k = "location" THEN loc
                       ELSE IF k = "rate_expectations" THEN rate
                       ELSE IF k = "budget" THEN budget
                       ELSE JAbsent]

NoCall == RawArgs("none", "none", NoArgs)

Reply(n, fc, name, raw, content) ==
    [choices |-> n, fc |-> fc, name |-> name, raw |-> raw, content |-> content]

\* the email / patient_email argument of a call: the model names the second
\* participant, whoever the turn belongs to
OtherEmail == JStr(<<"patient1">>)

\* the shapes of ChatResponse the handler is driven with
Replies ==
    {Reply(0, FALSE, "", NoCall, ""),
     Reply(1, FALSE, "", NoCall, "text"),
     Reply(1, FALSE, "", NoCall, ""),
     Reply(1, TRUE, "store_caregiver",
           RawArgs("object", "none",
                   [Args(JStr(NewYorkNY), JAbsent, JAbsent) EXCEPT !["email"] = OtherEmail]), ""),
     Reply(1, TRUE, "store_caregiver",
           RawArgs("string", "object", Args(JAbsent, JStr(<<"3", "5">>), JAbsent)), ""),
     Reply(1, TRUE, "store_patient",
           RawArgs("object", "none", Args(JStr(NewYorkNY), JAbsent, JNum(40))), ""),
     Reply(1, TRUE, "list_caregivers", RawArgs("object", "none", NoArgs), "text"),
     Reply(1, TRUE, "find_matching_caregivers",
           RawArgs("object", "none", [NoArgs EXCEPT !["patient_email"] = OtherEmail]), ""),
     Reply(1, TRUE, "execute_dynamic_query", RawArgs("object", "none", NoArgs), ""),
     Reply(1, TRUE, "store_caregiver", RawArgs("garbage", "none", NoArgs), "")}

(* --------------------------- the handler ------------------------------- *)

NoSession == [email |-> "", message |-> ""]

\* arg and ret hold the input and the result of a function called on its
\* own; the chat handler does not use them
NoCallee == [fn |-> ""]

NoReply == Reply(0, FALSE, "", NoCall, "")

\* mutant: the row is keyed by the email argument when the call has one
CaregiverFromArgs_ArgumentEmail(email, args, ts) ==
    [email |-> IF args["email"].t = "string" THEN args["email"].s[1] ELSE email,
     name |-> getStringArg(args, "name", <<>>),
     experience |-> getStringArg(args, "experience", <<>>),
     location |-> getStringArg(args, "location", <<>>),
     availability |-> getStringArg(args, "availability", <<>>),
     specializations |-> getStringArg(args, "specializations", <<>>),
     rate_expectations |-> getFloatArg(args, "rate_expectations", 0),
     certifications |-> getStringArg(args, "certifications", <<>>),
     created_at |-> ts]

\* the Caregiver built from the arguments of store_caregiver
CaregiverFromArgs(email, args, ts) ==
    [email |-> email,
     name |-> getStringArg(args, "name", <<>>),
     experience |-> getStringArg(args, "experience", <<>>),
     location |-> getStringArg(args, "location", <<>>),
     availability |-> getStringArg(args, "availability", <<>>),
     specializations |-> getStringArg(args, "specializations", <<>>),
     rate_expectations |-> getFloatArg(args, "rate_expectations", 0),
     certifications |-> getStringArg(args, "certifications", <<>>),
     created_at |-> ts]

\* the Patient built from the arguments of store_patient
PatientFromArgs(email, args, ts) ==
    [email |-> email,
     name |-> getStringArg(args, "name", <<>>),
     care_needs |-> getStringArg(args, "care_needs", <<>>),
     location |-> getStringArg(args, "location", <<>>),
     schedule_requirements |-> getStringArg(args, "schedule_requirements", <<>>),
     budget |-> getFloatArg(args, "budget", 0),
     special_requirements |-> getStringArg(args, "special_requirements", <<>>),
     phone_number |-> getStringArg(args, "phone_number", <<>>),
     created_at |-> ts]

NoEntity == CaregiverFromArgs("", NoArgs, 0)

\* the tables NewApp creates, and the clock
EmptyStore ==
    /\ now = 0
    /\ caregivers = {}
    /\ patients = {}
    /\ chat_history = {}
    /\ skills = {}
    /\ matches = {}

\* the App of the single-session handler as NewApp returns it: no email
\* context, no messages
NewApp == [userContext |-> [Email |-> <<>>], messages |-> <<>>]

\* no request is being served
NoRequests ==
    /\ pc = [t \in Procs |-> "idle"]
    /\ sess = [t \in Procs |-> NoSession]
    /\ transcript = [t \in Procs |-> <<>>]
    /\ resp = [t \in Procs |-> NoReply]
    /\ entity = [t \in Procs |-> NoEntity]
    /\ exists = [t \in Procs |-> FALSE]
    /\ response = [t \in Procs |-> ""]
    /\ outcome = [t \in Procs |-> ""]
    /\ nextMsg = 1
    /\ asstAppended = [t \in Procs |-> 0]
    /\ rowWrites = [t \in Procs |-> 0]
    /\ loaded = [email |-> "", messages |-> <<>>]
    /\ chatRoom = NewApp

chatVars == <<pc, sess, transcript, resp, entity, exists, response, outcome,
              nextMsg, asstAppended, rowWrites, loaded, chatRoom>>

Init ==
    /\ EmptyStore
    /\ NoRequests
    /\ arg = NoCallee
    /\ ret = NoCallee

\* time.Now(): the wall clock has stayed within the resolution of a stored
\* timestamp since the last reading, or it has advanced
TimeNow(ts) ==
    /\ ts <= MaxTime
    /\ now' = ts

\* a handler returns (an HTTP error or the redirect) and its frame is gone;
\* the result of the turn stays readable until the goroutine slot is taken again.
\* For an error of handleOpenAIResponse the result is the error handleChat
\* logs; the body of the HTTP 500 is "Failed to process OpenAI response" for
\* each of them.
Return(t, result) ==
    /\ pc' = [pc EXCEPT ![t] = "done"]
    /\ outcome' = [outcome EXCEPT ![t] = result]
    /\ transcript' = [transcript EXCEPT ![t] = <<>>]
    /\ resp' = [resp EXCEPT ![t] = NoReply]
    /\ entity' = [entity EXCEPT ![t] = NoEntity]
    /\ exists' = [exists EXCEPT ![t] = FALSE]
    /\ response' = [response EXCEPT ![t] = ""]
    /\ sess' = [sess EXCEPT ![t] = NoSession]
    /\ rowWrites' = [rowWrites EXCEPT ![t] = 0]

Free(t) == pc[t] \in {"idle", "done"}

\* handleChat, POST: the user's message is logged first.  The request runs in
\* a new goroutine; goroutines are interchangeable, so it gets the first free slot.
HandleChatPost(t, e) ==
    /\ Free(t)
    /\ \A u \in Procs : u < t => ~Free(u)
    /\ nextMsg <= MaxTurns
    /\ (nextMsg = 1 => e = FirstEmail)
    /\ nextMsg' = nextMsg + 1
    /\ asstAppended' = [asstAppended EXCEPT ![t] = 0]
    /\ \E ts \in {now, now + 1} :
          /\ TimeNow(ts)
          /\ LET ins == AddMessageWithRecipient(chat_history, e, "user", MsgText(nextMsg),
                                                "admin", ts)
             IN /\ chat_history' = ins.tbl
                /\ IF ins.ok
                   THEN /\ pc' = [pc EXCEPT ![t] = "added"]
                        /\ sess' = [sess EXCEPT
                                      ![t] = [email |-> e, message |-> MsgText(nextMsg)]]
                        /\ outcome' = [outcome EXCEPT ![t] = ""]
                        /\ UNCHANGED <<transcript, resp, entity, exists, response,
                                       rowWrites>>
                   ELSE Return(t, "Failed to add message")
    /\ UNCHANGED <<caregivers, patients, skills, matches, loaded, chatRoom, arg, ret>>

\* handleChat: messages = [system prompt] + GetUserMessages(userEmail)
BuildTranscript(t) ==
    /\ pc[t] = "added"
    /\ transcript' = [transcript EXCEPT
                        ![t] = <<systemPrompt>> \o GetUserMessages(chat_history, sess[t].email)]
    /\ pc' = [pc EXCEPT ![t] = "built"]
    /\ UNCHANGED <<now, dbVars, sess, resp, entity, exists, response, outcome,
                   nextMsg, asstAppended, rowWrites, loaded, chatRoom, arg, ret>>

\* mutant: the failure of the model call is logged as an assistant entry
CallOpenAIFail_LogsError(t) ==
    /\ pc[t] = "built"
    /\ \E ts \in {now, now + 1} :
          /\ TimeNow(ts)
          /\ chat_history' = AddMessageWithRecipient(chat_history, sess[t].email, "assistant",
                                                     "Failed to process message", "admin", ts).tbl
    /\ Return(t, "Failed to process message")
    /\ UNCHANGED <<caregivers, patients, skills, matches, nextMsg, asstAppended, loaded, chatRoom, arg, ret>>

\* callOpenAI returns an error (request failed, 30 s timeout, undecodable body)
CallOpenAIFail(t) ==
    /\ pc[t] = "built"
    /\ Return(t, "Failed to process message")
    /\ UNCHANGED <<now, dbVars, nextMsg, asstAppended, loaded, chatRoom, arg, ret>>

(* ----------------------- handleOpenAIResponse -------------------------- *)
(* callOpenAI returns the reply r and handleOpenAIResponse runs up to and  *)
(* including its first database statement.                                 *)

CallOpenAIOk(t, r) ==
    pc[t] = "built"

\* the switch reaches the case of function `name` with decoded arguments
Dispatched(t, r, name) ==
    /\ CallOpenAIOk(t, r)
    /\ r.choices > 0
    /\ r.fc
    /\ GetArguments(r.raw).ok
    /\ r.name = name

\* the handler goes on to the next statement with its locals set
Goto(t, label, r) ==
    /\ pc' = [pc EXCEPT ![t] = label]
    /\ resp' = [resp EXCEPT ![t] = r]
    /\ transcript' = [transcript EXCEPT ![t] = <<>>]

\* if choice.Content != "": the text of the reply is logged as an assistant
\* entry, and handleOpenAIResponse returns
AppendContent(t, content) ==
    IF content # ""
    THEN \E ts \in {now, now + 1} :
            /\ TimeNow(ts)
            /\ LET ins == AddMessageWithRecipient(chat_history, sess[t].email, "assistant",
                                                  content, "admin", ts)
               IN /\ chat_history' = ins.tbl
                  /\ asstAppended' = [asstAppended EXCEPT ![t] = IF ins.ok THEN @ + 1 ELSE @]
                  /\ Return(t, IF ins.ok THEN "ok" ELSE "error adding assistant response")
    ELSE /\ Return(t, "ok")
         /\ UNCHANGED <<now, chat_history, asstAppended>>

\* len(resp.Choices) == 0
ReturnNoChoices(t, r) ==
    /\ CallOpenAIOk(t, r)
    /\ r.choices = 0
    /\ Return(t, "ok")
    /\ UNCHANGED <<now, dbVars, nextMsg, asstAppended, loaded, chatRoom, arg, ret>>

\* choice.FunctionCall == nil
NoFunctionCall(t, r) ==
    /\ CallOpenAIOk(t, r)
    /\ r.choices > 0
    /\ ~r.fc
    /\ AppendContent(t, r.content)
    /\ UNCHANGED <<caregivers, patients, skills, matches, nextMsg, loaded, chatRoom, arg, ret>>

\* mutant: the undecodable arguments are stored as a row of defaults before
\* the error is returned
ArgumentParseError_PartialWrite(t, r) ==
    /\ CallOpenAIOk(t, r)
    /\ r.choices > 0
    /\ r.fc
    /\ ~GetArguments(r.raw).ok
    /\ caregivers' = InsertCaregiver(caregivers,
                                     CaregiverFromArgs(sess[t].email, NoArgs, now)).tbl
    /\ Return(t, "error parsing function arguments")
    /\ UNCHANGED <<now, patients, chat_history, skills, matches, nextMsg, asstAppended,
                   loaded, chatRoom, arg, ret>>

\* GetArguments returns an error
ArgumentParseError(t, r) ==
    /\ CallOpenAIOk(t, r)
    /\ r.choices > 0
    /\ r.fc
    /\ ~GetArguments(r.raw).ok
    /\ Return(t, "error parsing function arguments")
    /\ UNCHANGED <<now, dbVars, nextMsg, asstAppended, loaded, chatRoom, arg, ret>>

\* a function name without a case in the switch: response stays ""
DispatchUnknown(t, r) ==
    /\ CallOpenAIOk(t, r)
    /\ r.choices > 0
    /\ r.fc
    /\ GetArguments(r.raw).ok
    /\ r.name \notin {"list_patients", "list_caregivers", "find_matching_caregivers",
                      "find_matching_patients", "store_caregiver", "store_patient"}
    /\ AppendContent(t, r.content)
    /\ UNCHANGED <<caregivers, patients, skills, matches, nextMsg, loaded, chatRoom, arg, ret>>

\* case "list_patients", case "list_caregivers"
DispatchList(t, r) ==
    /\ IF r.name = "list_patients"
       THEN /\ Dispatched(t, r, "list_patients")
            /\ response' = [response EXCEPT ![t] = formatPatientList(Cardinality(patients))]
       ELSE /\ Dispatched(t, r, "list_caregivers")
            /\ response' = [response EXCEPT ![t] = formatCaregiverList(Cardinality(caregivers))]
    /\ Goto(t, "respond", r)
    /\ UNCHANGED <<now, dbVars, sess, entity, exists, outcome,
                   nextMsg, asstAppended, rowWrites, loaded, chatRoom, arg, ret>>

\* case "find_matching_caregivers", case "find_matching_patients": the match
\* runs for the session email
DispatchFind(t, r) ==
    /\ IF r.name = "find_matching_patients"
       THEN /\ Dispatched(t, r, "find_matching_patients")
            /\ LET m == FindMatchingPatients(caregivers, patients, sess[t].email)
               IN response' = [response EXCEPT ![t] =
                      IF m.found THEN formatPatientList(Len(m.rows))
                      ELSE "Error finding matches: caregiver not found"]
       ELSE /\ Dispatched(t, r, "find_matching_caregivers")
            /\ LET m == FindMatchingCaregivers(caregivers, patients, sess[t].email)
               IN response' = [response EXCEPT ![t] =
                      IF m.found THEN formatCaregiverList(Len(m.rows))
                      ELSE "Error finding matches: patient not found"]
    /\ Goto(t, "respond", r)
    /\ UNCHANGED <<now, dbVars, sess, entity, exists, outcome,
                   nextMsg, asstAppended, rowWrites, loaded, chatRoom, arg, ret>>

\* case "store_caregiver" up to the existence query of StoreCaregiver:
\* c.CreatedAt = time.Now(), then SELECT email FROM caregivers WHERE email = ?
StoreCaregiverCheck(t, r) ==
    /\ Dispatched(t, r, "store_caregiver")
    /\ \E ts \in {now, now + 1} :
          /\ TimeNow(ts)
          /\ entity' = [entity EXCEPT
                ![t] = CaregiverFromArgs(sess[t].email, GetArguments(r.raw).args, ts)]
    /\ exists' = [exists EXCEPT ![t] = RowExists(caregivers, sess[t].email)]
    /\ Goto(t, "store_caregiver", r)
    /\ UNCHANGED <<dbVars, sess, response, outcome,
                   nextMsg, asstAppended, rowWrites, loaded, chatRoom, arg, ret>>

\* StoreCaregiver after the query: UPDATE if the row was seen, else INSERT
StoreCaregiverExec(t) ==
    /\ pc[t] = "store_caregiver"
    /\ IF exists[t]
       THEN /\ caregivers' = UpdateCaregiver(caregivers, entity[t])
            /\ rowWrites' = [rowWrites EXCEPT ![t] = @ + 1]
            /\ response' = [response EXCEPT ![t] = "Successfully registered as a caregiver."]
       ELSE LET ins == InsertCaregiver(caregivers, entity[t])
            IN /\ caregivers' = ins.tbl
               /\ rowWrites' = [rowWrites EXCEPT ![t] = IF ins.ok THEN @ + 1 ELSE @]
               /\ response' = [response EXCEPT ![t] =
                      IF ins.ok THEN "Successfully registered as a caregiver."
                      ELSE "Error storing caregiver: constraint"]
    /\ pc' = [pc EXCEPT ![t] = "respond"]
    /\ UNCHANGED <<now, patients, chat_history, skills, matches, sess, transcript, resp,
                   entity, exists, outcome, nextMsg, asstAppended, loaded, chatRoom, arg, ret>>

\* case "store_patient" up to the existence query of StorePatient
StorePatientCheck(t, r) ==
    /\ Dispatched(t, r, "store_patient")
    /\ \E ts \in {now, now + 1} :
          /\ TimeNow(ts)
          /\ entity' = [entity EXCEPT
                ![t] = PatientFromArgs(sess[t].email, GetArguments(r.raw).args, ts)]
    /\ exists' = [exists EXCEPT ![t] = RowExists(patients, sess[t].email)]
    /\ Goto(t, "store_patient", r)
    /\ UNCHANGED <<dbVars, sess, response, outcome,
                   nextMsg, asstAppended, rowWrites, loaded, chatRoom, arg, ret>>

\* StorePatient after the query: UPDATE if the row was seen, else INSERT
StorePatientExec(t) ==
    /\ pc[t] = "store_patient"
    /\ IF exists[t]
       THEN /\ patients' = UpdatePatient(patients, entity[t])
            /\ rowWrites' = [rowWrites EXCEPT ![t] = @ + 1]
            /\ response' = [response EXCEPT ![t] = "Successfully registered as a patient."]
       ELSE LET ins == InsertPatient(patients, entity[t])
            IN /\ patients' = ins.tbl
               /\ rowWrites' = [rowWrites EXCEPT ![t] = IF ins.ok THEN @ + 1 ELSE @]
               /\ response' = [response EXCEPT ![t] =
                      IF ins.ok THEN "Successfully registered as a patient."
                      ELSE "Error storing patient: constraint"]
    /\ pc' = [pc EXCEPT ![t] = "respond"]
    /\ UNCHANGED <<now, caregivers, chat_history, skills, matches, sess, transcript, resp,
                   entity, exists, outcome, nextMsg, asstAppended, loaded, chatRoom, arg, ret>>

\* if response != "": the result of the function is logged as an assistant
\* entry (every case of the switch sets a response); with no Content to log
\* after it, handleOpenAIResponse returns
Respond(t) ==
    /\ pc[t] = "respond"
    /\ \E ts \in {now, now + 1} :
          /\ TimeNow(ts)
          /\ LET ins == AddMessageWithRecipient(chat_history, sess[t].email, "assistant",
                                                response[t], "admin", ts)
             IN /\ chat_history' = ins.tbl
                /\ asstAppended' = [asstAppended EXCEPT ![t] = IF ins.ok THEN @ + 1 ELSE @]
                /\ IF ~ins.ok
                   THEN Return(t, "error adding function response")
                   ELSE IF resp[t].content = ""
                   THEN Return(t, "ok")
                   ELSE /\ pc' = [pc EXCEPT ![t] = "content"]
                        /\ UNCHANGED <<outcome, transcript, resp, entity, exists, response,
                                       sess, rowWrites>>
    /\ UNCHANGED <<caregivers, patients, skills, matches, nextMsg, loaded, chatRoom, arg, ret>>

\* if choice.Content != "", after a function result was logged
Content(t) ==
    /\ pc[t] = "content"
    /\ AppendContent(t, resp[t].content)
    /\ UNCHANGED <<caregivers, patients, skills, matches, nextMsg, loaded, chatRoom, arg, ret>>

Next ==
    \/ \E t \in Procs, e \in Emails : HandleChatPost(t, e)
    \/ \E t \in Procs : BuildTranscript(t)
    \/ \E t \in Procs : CallOpenAIFail(t)
    \/ \E t \in Procs, r \in Replies : ReturnNoChoices(t, r)
    \/ \E t \in Procs, r \in Replies : NoFunctionCall(t, r)
    \/ \E t \in Procs, r \in Replies : ArgumentParseError(t, r)
    \/ \E t \in Procs, r \in Replies : DispatchUnknown(t, r)
    \/ \E t \in Procs, r \in Replies : DispatchList(t, r)
    \/ \E t \in Procs, r \in Replies : DispatchFind(t, r)
    \/ \E t \in Procs, r \in Replies : StoreCaregiverCheck(t, r)
    \/ \E t \in Procs : StoreCaregiverExec(t)
    \/ \E t \in Procs, r \in Replies : StorePatientCheck(t, r)
    \/ \E t \in Procs : StorePatientExec(t)
    \/ \E t \in Procs : Respond(t)
    \/ \E t \in Procs : Content(t)

Spec == Init /\ [][Next]_vars

(* ------------------- the history store on its own ---------------------- *)
(* AddMessageWithRecipient and LoadChatHistory driven by any caller.       *)

\* number of entries appended in one behaviour of SpecHistory
MaxEntries == 4

NotLoaded == [email |-> "", messages |-> <<>>]

HistAppend(e, role) ==
    /\ nextMsg <= MaxEntries
    /\ nextMsg' = nextMsg + 1
    /\ \E ts \in {now, now + 1} :
          /\ TimeNow(ts)
          /\ chat_history' = AddMessageWithRecipient(chat_history, e, role, MsgText(nextMsg),
                                                     "admin", ts).tbl
    /\ loaded' = NotLoaded
    /\ UNCHANGED <<caregivers, patients, skills, matches, pc, sess, transcript, resp,
                   entity, exists, response, outcome, asstAppended, rowWrites, arg, ret, chatRoom>>

HistLoad(e) ==
    /\ loaded' = [email |-> e, messages |-> LoadChatHistory(chat_history, e)]
    /\ UNCHANGED <<now, dbVars, pc, sess, transcript, resp, entity, exists, response,
                   outcome, nextMsg, asstAppended, rowWrites, arg, ret, chatRoom>>

NextHistory ==
    \/ \E e \in Emails, role \in {"user", "assistant"} : HistAppend(e, role)
    \/ \E e \in Emails : HistLoad(e)

SpecHistory == Init /\ [][NextHistory]_vars

(* ------------------------------ claims --------------------------------- *)

\* C1: after any sequence of store_caregiver and store_patient calls the
\* caregivers table holds at most one row per email, and so does the
\* patients table.
C1_OneRowPerEmail ==
    /\ \A r1, r2 \in caregivers : r1.email = r2.email => r1 = r2
    /\ \A r1, r2 \in patients : r1.email = r2.email => r1 = r2

\* a second store_caregiver for an email that has a row has run its statement
C1_Witness ==
    \E t \in Procs :
        /\ pc[t] = "respond"
        /\ exists[t]
        /\ response[t] = "Successfully registered as a caregiver."
        /\ Cardinality({r \in caregivers : r.email = sess[t].email}) = 1

\* C2: every step leaves the created_at of every existing caregiver and
\* patient row as it was; only the insert path sets it.
C2_CreatedAtPreserved ==
    [][/\ \A r \in caregivers :
             \E q \in caregivers' : q.email = r.email /\ q.created_at = r.created_at
       /\ \A r \in patients :
             \E q \in patients' : q.email = r.email /\ q.created_at = r.created_at]_vars

\* an update that ran at a later clock reading than the insert left the row
\* with the earlier created_at
C2_Witness ==
    \E t \in Procs :
        /\ pc[t] = "respond"
        /\ exists[t]
        /\ \E r \in caregivers :
              /\ r.email = sess[t].email
              /\ r.created_at < entity[t].created_at
              /\ r.location = entity[t].location
              /\ r.rate_expectations = entity[t].rate_expectations

\* C3: a later store call that omits a field does not blank out the value
\* stored earlier: a populated location, rate or budget stays populated.
C3_PartialFieldMerge ==
    [][/\ \A r \in caregivers : \E q \in caregivers' :
             /\ q.email = r.email
             /\ (r.location # <<>> => q.location # <<>>)
             /\ (r.rate_expectations # 0 => q.rate_expectations # 0)
       /\ \A r \in patients : \E q \in patients' :
             /\ q.email = r.email
             /\ (r.location # <<>> => q.location # <<>>)
             /\ (r.budget # 0 => q.budget # 0)]_vars

\* C4: the existence check and the insert-or-update are one critical
\* section: no store call comes back with an error, and the email it stored
\* has exactly one row.
C4_UpsertCriticalSection ==
    \A t \in Procs :
        pc[t] = "respond" /\ resp[t].name \in {"store_caregiver", "store_patient"} =>
            /\ response[t] \notin {"Error storing caregiver: constraint",
                                   "Error storing patient: constraint"}
            /\ resp[t].name = "store_caregiver" =>
                   Cardinality({r \in caregivers : r.email = sess[t].email}) = 1
            /\ resp[t].name = "store_patient" =>
                   Cardinality({r \in patients : r.email = sess[t].email}) = 1

\* C5: the conversation log is append-only: every step keeps every logged
\* entry, with its email, role, content, recipient and timestamp.
C5_LogAppendOnly == [][chat_history \subseteq chat_history']_vars

\* entries of both participants are logged and profiles of both roles stored
C5_Witness ==
    /\ Cardinality(chat_history) >= 4
    /\ \E r, q \in chat_history : r.email # q.email /\ r.created_at = q.created_at
    /\ caregivers # {}
    /\ patients # {}

\* C6: an append never fails or drops an entry because another entry of the
\* same email has the same timestamp.
C6_SameTimestampBothStored ==
    \A t \in Procs :
        outcome[t] \notin {"Failed to add message", "error adding function response",
                           "error adding assistant response"}

\* position of row r among the rows S of one email, oldest first
Rank(S, r) == Cardinality({q \in S : q.created_at <= r.created_at})

\* C7: LoadChatHistory returns the last min(n, maxHistory) entries of the
\* email's chronological sequence, oldest of them first.
C7_LoadReturnsTail ==
    loaded.email # "" =>
        LET rows == {r \in chat_history : r.email = loaded.email}
            n == Cardinality(rows)
            k == IF n <= maxHistory THEN n ELSE maxHistory
        IN /\ Len(loaded.messages) = k
           /\ \A r \in rows :
                 Rank(rows, r) > n - k =>
                     loaded.messages[Rank(rows, r) - (n - k)] = Message(r)

\* a history longer than the limit has been loaded
C7_Witness ==
    /\ loaded.email # ""
    /\ Cardinality({r \in chat_history : r.email = loaded.email}) > maxHistory

C9_ModelFailureAborts ==
    [][\A t \in Procs :
          pc[t] = "built" /\ outcome'[t] = "Failed to process message" =>
              /\ pc'[t] = "done"
              /\ chat_history' = chat_history
              /\ caregivers' = caregivers
              /\ patients' = patients
              /\ skills' = skills
              /\ matches' = matches
              /\ \E r \in chat_history' :
                    /\ r.email = sess[t].email
                    /\ r.role = "user"
                    /\ r.content = sess[t].message
              /\ asstAppended'[t] = 0
              /\ rowWrites[t] = 0]_vars

\* a turn has ended on a failed model call while profiles are stored
C9_Witness ==
    \E t \in Procs :
        /\ outcome[t] = "Failed to process message"
        /\ chat_history # {}
        /\ caregivers # {}

\* C10: a turn appends at most one assistant entry.
C10_AtMostOneAssistantEntry == \A t \in Procs : asstAppended[t] <= 1

\* C11: every turn whose model call succeeds ends with a new assistant
\* entry in the log; a reply with neither text nor a tool call yields the
\* fallback prompt as that entry.
C11_SuccessfulTurnAppendsAssistant ==
    \A t \in Procs : pc[t] = "done" /\ outcome[t] = "ok" => asstAppended[t] >= 1

\* C12: when the arguments of a tool call cannot be decoded the turn ends
\* with an error and has written nothing: no caregiver or patient row is
\* inserted or updated and no assistant entry is appended in the turn.
C12_ParseErrorAborts ==
    [][\A t \in Procs :
          pc[t] = "built" /\ outcome'[t] = "error parsing function arguments" =>
              /\ pc'[t] = "done"
              /\ caregivers' = caregivers
              /\ patients' = patients
              /\ skills' = skills
              /\ matches' = matches
              /\ chat_history' = chat_history
              /\ asstAppended'[t] = 0
              /\ rowWrites[t] = 0]_vars

\* a turn has ended on undecodable arguments; its user entry is in the log
C12_Witness ==
    \E t \in Procs :
        /\ pc[t] = "done"
        /\ outcome[t] = "error parsing function arguments"
        /\ asstAppended[t] = 0
        /\ \E r \in chat_history : r.role = "user"

(* ---------------- the arguments of a tool call on their own ------------ *)
(* GetArguments, getFloatArg and the store_* cases applied to payloads     *)
(* drawn from the shapes the model sends.                                   *)

ABC == <<"a", "b", "c">>

RateValues == {JAbsent, JNull, JNum(35), JStr(<<"3", "5">>), JStr(ABC), JStr(<<>>), JBool}

BudgetValues == {JAbsent, JNum(40), JStr(<<"4", "0">>), JStr(NewYorkNY)}

\* the logical content of a call: the fields the caller means
Contents ==
    {Args(l, r, b) : l \in {JAbsent, JStr(NewYorkNY)}, r \in RateValues, b \in BudgetValues}

RECURSIVE Join(_)
Join(chars) == IF chars = <<>> THEN "" ELSE chars[1] \o Join(Tail(chars))

\* one field as a string of the {"arguments": [...]} form
Item(content, k) ==
    k \o "=" \o (IF content[k].t = "string" THEN Join(content[k].s)
                 ELSE IF content[k].t = "number" THEN ToString(content[k].n)
                 ELSE content[k].t)

\* the object {"arguments": [<strings>]}: its only key is "arguments"
Wrapper(content) ==
    [k \in ArgKeys |->
        IF k = "arguments"
        THEN JArr(<<Item(content, "location"), Item(content, "rate_expectations"),
                    Item(content, "budget")>>)
        ELSE JAbsent]

Shapes == {"object", "string", "wrapper", "null", "array"}

\* FunctionCall.Arguments as received for a content in a shape
Encode(content, shape) ==
    IF shape = "object" THEN RawArgs("object", "none", content)
    ELSE IF shape = "string" THEN RawArgs("string", "object", content)
    ELSE IF shape = "wrapper" THEN RawArgs("string", "object", Wrapper(content))
    ELSE IF shape = "null" THEN RawArgs("null", "none", NoArgs)
    ELSE RawArgs("array", "none", NoArgs)

InitArgs ==
    /\ EmptyStore
    /\ NoRequests
    /\ \E c \in Contents, sh \in Shapes :
          arg = [fn |-> "GetArguments", content |-> c, shape |-> sh, raw |-> Encode(c, sh)]
    /\ ret = NoCallee

CallGetArguments ==
    /\ ret.fn = ""
    /\ LET got == GetArguments(arg.raw)
       IN ret' = [fn |-> "GetArguments", ok |-> got.ok, args |-> got.args,
                  key |-> "", default |-> 0, f |-> 0]
    /\ UNCHANGED <<now, dbVars, chatVars, arg>>

CallGetFloatArg(key, defaultValue) ==
    /\ ret.fn = "GetArguments"
    /\ ret.ok
    /\ ret' = [ret EXCEPT !.fn = "getFloatArg", !.key = key, !.default = defaultValue,
                          !.f = getFloatArg(ret.args, key, defaultValue)]
    /\ UNCHANGED <<now, dbVars, chatVars, arg>>

\* case "store_caregiver" of handleOpenAIResponse
CallStoreCaregiver ==
    /\ ret.fn = "GetArguments"
    /\ ret.ok
    /\ LET st == StoreCaregiver(caregivers, CaregiverFromArgs(FirstEmail, ret.args, now))
       IN /\ caregivers' = st.tbl
          /\ ret' = [ret EXCEPT !.fn = "store_caregiver", !.ok = st.ok]
    /\ UNCHANGED <<now, patients, chat_history, skills, matches, chatVars, arg>>

\* case "store_patient" of handleOpenAIResponse
CallStorePatient ==
    /\ ret.fn = "GetArguments"
    /\ ret.ok
    /\ LET st == StorePatient(patients, PatientFromArgs(FirstEmail, ret.args, now))
       IN /\ patients' = st.tbl
          /\ ret' = [ret EXCEPT !.fn = "store_patient", !.ok = st.ok]
    /\ UNCHANGED <<now, caregivers, chat_history, skills, matches, chatVars, arg>>

NextArgs ==
    \/ CallGetArguments
    \/ \E key \in {"rate_expectations", "budget"}, d \in {0, 1} : CallGetFloatArg(key, d)
    \/ CallStoreCaregiver
    \/ CallStorePatient

SpecArgs == InitArgs /\ [][NextArgs]_vars

\* C13: for one logical content GetArguments yields the same fields from
\* the direct object, from the string holding the object, and from the
\* string holding the {"arguments": [...]} form.
C13_EncodingsEquivalent ==
    ret.fn = "GetArguments" /\ arg.shape \in {"object", "string", "wrapper"} =>
        /\ ret.ok
        /\ \A k \in {"location", "rate_expectations", "budget"} :
              ret.args[k] = arg.content[k]

\* largest number whose decimal text is compared with a string argument
MaxNumber == 99

\* the decimal text of a natural number
RECURSIVE Numeral(_)
Numeral(n) == IF n < 10 THEN <<Digits[n + 1]>> ELSE Numeral(n \div 10) \o <<Digits[(n % 10) + 1]>>

\* what a field v is read as when a number is wanted
Coerced(v, defaultValue) ==
    IF v.t = "number" THEN v.n
    ELSE IF v.t = "string" /\ \E n \in 0..MaxNumber : Numeral(n) = v.s
         THEN CHOOSE n \in 0..MaxNumber : Numeral(n) = v.s
    ELSE defaultValue

\* C14: getFloatArg yields the number of a field that holds a number or a
\* numeric string and the caller's default for every other field, and a
\* store_caregiver or store_patient call with any such field stores the
\* row, with that number or 0.
C14_NumericCoercion ==
    /\ ret.fn = "getFloatArg" => ret.f = Coerced(ret.args[ret.key], ret.default)
    /\ ret.fn = "store_caregiver" =>
          /\ ret.ok
          /\ \E c \in caregivers :
                /\ c.email = FirstEmail
                /\ c.rate_expectations = Coerced(ret.args["rate_expectations"], 0)
    /\ ret.fn = "store_patient" =>
          /\ ret.ok
          /\ \E p \in patients :
                /\ p.email = FirstEmail
                /\ p.budget = Coerced(ret.args["budget"], 0)

\* a caregiver was stored from a call whose rate is a string that is not a
\* number
C14_Witness ==
    /\ ret.fn = "store_caregiver"
    /\ ret.args["rate_expectations"] = JStr(ABC)
    /\ \E c \in caregivers : c.rate_expectations = 0 /\ c.location = NewYorkNY

(* --------------------- the match functions on their own ---------------- *)
(* FindMatchingCaregivers and FindMatchingPatients applied to stores that  *)
(* store_caregiver and store_patient calls can leave.                      *)

NY == <<"N", "Y">>

Locations == {<<>>, NewYorkNY, NY, <<"n", "y">>, <<"N", "_">>}

Rates == {35, 50}

Budgets == {40, 60}

CaregiverRow(e, location, rate) ==
    CaregiverFromArgs(e, Args(JStr(location), JNum(rate), JAbsent), 0)

PatientRow(e, location, budget) ==
    PatientFromArgs(e, Args(JStr(location), JAbsent, JNum(budget)), 0)

\* the caregivers tables: at most one row per email
CaregiverTables ==
    UNION {{{CaregiverRow(e, f[e][1], f[e][2]) : e \in E} : f \in [E -> Locations \X Rates]}
           : E \in SUBSET Emails}

PatientTables ==
    UNION {{{PatientRow(e, f[e][1], f[e][2]) : e \in E} : f \in [E -> Locations \X Budgets]}
           : E \in SUBSET Emails}

InitMatch ==
    /\ now = 0
    /\ caregivers \in CaregiverTables
    /\ patients \in PatientTables
    /\ chat_history = {}
    /\ skills = {}
    /\ matches = {}
    /\ NoRequests
    /\ arg = NoCallee
    /\ ret = NoCallee

CallFindMatchingCaregivers(patientEmail) ==
    /\ ret.fn = ""
    /\ LET got == FindMatchingCaregivers(caregivers, patients, patientEmail)
       IN ret' = [fn |-> "FindMatchingCaregivers", email |-> patientEmail,
                  found |-> got.found, rows |-> got.rows]
    /\ UNCHANGED <<now, dbVars, chatVars, arg>>

CallFindMatchingPatients(caregiverEmail) ==
    /\ ret.fn = ""
    /\ LET got == FindMatchingPatients(caregivers, patients, caregiverEmail)
       IN ret' = [fn |-> "FindMatchingPatients", email |-> caregiverEmail,
                  found |-> got.found, rows |-> got.rows]
    /\ UNCHANGED <<now, dbVars, chatVars, arg>>

NextMatch ==
    \/ \E e \in Emails : CallFindMatchingCaregivers(e)
    \/ \E e \in Emails : CallFindMatchingPatients(e)

SpecMatch == InitMatch /\ [][NextMatch]_vars

\* needle occurs in text as a run of consecutive characters
Contains(text, needle) ==
    \E i \in 0..(Len(text) - Len(needle)) : SubSeq(text, i + 1, i + Len(needle)) = needle

\* the elements of a sequence
Range(seq) == {seq[i] : i \in 1..Len(seq)}

\* C15: for a patient with a row FindMatchingCaregivers returns exactly the
\* caregiver rows whose lower-cased location contains the patient's
\* lower-cased location as a substring and whose rate is at most the
\* patient's budget.
C15_MatchingCaregiversExact ==
    ret.fn = "FindMatchingCaregivers" /\ ret.found =>
        \A p \in patients :
            p.email = ret.email =>
                Range(ret.rows) =
                    {c \in caregivers : /\ Contains(Lower(c.location), Lower(p.location))
                                        /\ c.rate_expectations <= p.budget}

\* C16: the list FindMatchingCaregivers returns is ordered by rate
\* ascending.
C16_MatchingCaregiversByRate ==
    ret.fn = "FindMatchingCaregivers" =>
        \A i \in 1..(Len(ret.rows) - 1) :
            ret.rows[i].rate_expectations <= ret.rows[i + 1].rate_expectations

\* two caregivers of different rates were returned
C16_Witness ==
    /\ ret.fn = "FindMatchingCaregivers"
    /\ Len(ret.rows) = 2
    /\ ret.rows[1].rate_expectations < ret.rows[2].rate_expectations

\* C17: FindMatchingCaregivers fails with not-found exactly when the patient
\* email has no row, and FindMatchingPatients exactly when the caregiver
\* email has no row; an empty match is an empty list and no error.
C17_NotFoundIffNoRow ==
    /\ ret.fn = "FindMatchingCaregivers" =>
          (ret.found <=> \E p \in patients : p.email = ret.email)
    /\ ret.fn = "FindMatchingPatients" =>
          (ret.found <=> \E c \in caregivers : c.email = ret.email)
    /\ ret.fn \in {"FindMatchingCaregivers", "FindMatchingPatients"} /\ ~ret.found =>
          ret.rows = <<>>

\* a patient with a row matched no caregiver of a store that has caregivers
C17_Witness ==
    /\ ret.fn = "FindMatchingCaregivers"
    /\ ret.found
    /\ ret.rows = <<>>
    /\ caregivers # {}

\* C18: for a caregiver with a row FindMatchingPatients returns exactly the
\* patient rows whose lower-cased location contains the caregiver's
\* lower-cased location and whose budget is at least the caregiver's rate,
\* ordered by budget descending.
C18_MatchingPatientsExact ==
    ret.fn = "FindMatchingPatients" /\ ret.found =>
        /\ \A c \in caregivers :
              c.email = ret.email =>
                  Range(ret.rows) =
                      {p \in patients : /\ Contains(Lower(p.location), Lower(c.location))
                                        /\ p.budget >= c.rate_expectations}
        /\ \A i \in 1..(Len(ret.rows) - 1) : ret.rows[i].budget >= ret.rows[i + 1].budget

(* ------------------ turns processed one after another ------------------ *)
(* processTestData: the lines of the test data are handled one at a time, *)
(* each as a whole turn; here every turn's reply is a store_caregiver or a *)
(* store_patient call that delivers some of the participant's facts.       *)

\* number of turns in one behaviour of SpecTurns
MaxLines == 4

\* the facts a call delivers: the location, the amount, or both
CaregiverFacts ==
    {Args(JStr(NewYorkNY), JAbsent, JAbsent), Args(JAbsent, JNum(35), JAbsent),
     Args(JStr(NewYorkNY), JNum(35), JAbsent)}

PatientFacts ==
    {Args(JStr(NewYorkNY), JAbsent, JAbsent), Args(JAbsent, JAbsent, JNum(40)),
     Args(JStr(NewYorkNY), JAbsent, JNum(40))}

\* the facts delivered so far, as <<email, function, key>>
Told(e, name, content) ==
    {<<e, name, k>> : k \in {k \in ArgKeys : content[k].t # "absent"}}

InitTurns ==
    /\ EmptyStore
    /\ NoRequests
    /\ arg = [fn |-> "processTestData", told |-> {}]
    /\ ret = NoCallee

\* one line whose reply calls store_caregiver: the user entry, the store,
\* the entry of the function's response; the clock advances between them
LineStoreCaregiver(e, content) ==
    /\ nextMsg <= MaxLines
    /\ nextMsg' = nextMsg + 1
    /\ now' = now + 3
    /\ LET added == AddMessageWithRecipient(chat_history, e, "user", MsgText(nextMsg),
                                            "admin", now + 1).tbl
           args == GetArguments(RawArgs("object", "none", content)).args
           st == StoreCaregiver(caregivers, CaregiverFromArgs(e, args, now + 2))
       IN /\ caregivers' = st.tbl
          /\ chat_history' = AddMessageWithRecipient(
                                 added, e, "assistant",
                                 IF st.ok THEN "Successfully registered as a caregiver."
                                 ELSE "Error storing caregiver: constraint",
                                 "admin", now + 3).tbl
    /\ arg' = [arg EXCEPT !.told = @ \cup Told(e, "store_caregiver", content)]
    /\ UNCHANGED <<patients, skills, matches, pc, sess, transcript, resp, entity, exists,
                   response, outcome, asstAppended, rowWrites, loaded, chatRoom, ret>>

\* one line whose reply calls store_patient
LineStorePatient(e, content) ==
    /\ nextMsg <= MaxLines
    /\ nextMsg' = nextMsg + 1
    /\ now' = now + 3
    /\ LET added == AddMessageWithRecipient(chat_history, e, "user", MsgText(nextMsg),
                                            "admin", now + 1).tbl
           args == GetArguments(RawArgs("object", "none", content)).args
           st == StorePatient(patients, PatientFromArgs(e, args, now + 2))
       IN /\ patients' = st.tbl
          /\ chat_history' = AddMessageWithRecipient(
                                 added, e, "assistant",
                                 IF st.ok THEN "Successfully registered as a patient."
                                 ELSE "Error storing patient: constraint",
                                 "admin", now + 3).tbl
    /\ arg' = [arg EXCEPT !.told = @ \cup Told(e, "store_patient", content)]
    /\ UNCHANGED <<caregivers, skills, matches, pc, sess, transcript, resp, entity, exists,
                   response, outcome, asstAppended, rowWrites, loaded, chatRoom, ret>>

NextTurns ==
    \/ \E e \in Emails, content \in CaregiverFacts : LineStoreCaregiver(e, content)
    \/ \E e \in Emails, content \in PatientFacts : LineStorePatient(e, content)

SpecTurns == InitTurns /\ [][NextTurns]_vars

\* C19: once store_caregiver calls have delivered caregiver1's location
\* "New York, NY" and rate 35 and store_patient calls have delivered
\* patient1's location "New York, NY" and budget 40, in any number of turns
\* and any order, FindMatchingCaregivers(patient1) returns a list that
\* contains caregiver1.
C19_EndToEndMatch ==
    {<<"caregiver1", "store_caregiver", "location">>,
     <<"caregiver1", "store_caregiver", "rate_expectations">>,
     <<"patient1", "store_patient", "location">>,
     <<"patient1", "store_patient", "budget">>} \subseteq arg.told =>
        LET got == FindMatchingCaregivers(caregivers, patients, "patient1")
        IN /\ got.found
           /\ \E c \in Range(got.rows) : c.email = "caregiver1"

(* ------------------------- the dynamic query --------------------------- *)
(* BuildDynamicQuery and ExecuteDynamicQuery applied to DynamicQuery       *)
(* values.  The query text is the sequence of its words; a column list or  *)
(* a condition list is joined with "," or "AND" between its items.         *)

allowedTables == {"caregivers", "patients", "matches", "skills"}

allowedFields ==
    {"email", "experience", "location", "availability", "specializations",
     "rate_expectations", "certifications", "created_at", "care_needs",
     "schedule_requirements", "budget", "special_requirements", "status", "skill"}

allowedOperators ==
    {"=", ">", "<", ">=", "<=", "LIKE", "NOT LIKE", "IN", "NOT IN", "IS NULL", "IS NOT NULL"}

\* strings.Join(items, sep), as words
RECURSIVE JoinWords(_, _)
JoinWords(items, sep) ==
    IF items = <<>> THEN <<>>
    ELSE IF Len(items) = 1 THEN items[1]
    ELSE items[1] \o <<sep>> \o JoinWords(Tail(items), sep)

\* mutant: everything after the first word is cut off
TrimSuffixDesc_FirstWord(words) == IF words = <<>> THEN <<>> ELSE <<words[1]>>

\* strings.TrimSuffix(q.OrderBy, " DESC")
TrimSuffixDesc(words) ==
    IF Len(words) >= 2 /\ words[Len(words)] = "DESC"
    THEN SubSeq(words, 1, Len(words) - 1)
    ELSE words

\* mutant: only the field of a filter is checked
AcceptedFilters_FieldOnly(q) ==
    LET Accepted(filter) == filter.Field \in allowedFields
    IN SelectSeq(q.Filters, Accepted)

\* the filters that pass both whitelists, in the order given
AcceptedFilters(q) ==
    LET Accepted(filter) ==
            filter.Field \in allowedFields /\ filter.Operator \in allowedOperators
    IN SelectSeq(q.Filters, Accepted)

\* mutant: an empty projection when no listed column is known
SelectFields_Empty(q) ==
    LET Valid(f) == f \in allowedFields
        validFields == SelectSeq(q.Fields, Valid)
    IN JoinWords([i \in 1..Len(validFields) |-> <<validFields[i]>>], ",")

\* the SELECT list: the listed columns that are whitelisted, or * if none is
SelectFields(q) ==
    LET Valid(f) == f \in allowedFields
        validFields == SelectSeq(q.Fields, Valid)
    IN IF Len(validFields) > 0
       THEN JoinWords([i \in 1..Len(validFields) |-> <<validFields[i]>>], ",")
       ELSE <<"*">>

\* the conditions of the accepted filters: "field op" or "field op ?"
WhereConditions(accepted) ==
    [i \in 1..Len(accepted) |->
        IF accepted[i].Operator \in {"IS NULL", "IS NOT NULL"}
        THEN <<accepted[i].Field, accepted[i].Operator>>
        ELSE <<accepted[i].Field, accepted[i].Operator, "?">>]

\* mutant: the value of every accepted filter is bound
BoundParams_All(accepted) == [i \in 1..Len(accepted) |-> accepted[i].Value]

\* params: the values of the accepted filters that have a placeholder
BoundParams(accepted) ==
    LET Bound(filter) == filter.Operator \notin {"IS NULL", "IS NOT NULL"}
        bound == SelectSeq(accepted, Bound)
    IN [i \in 1..Len(bound) |-> bound[i].Value]

\* BuildDynamicQuery after the table check: the text and the parameters
QueryText(q) ==
    LET accepted == AcceptedFilters(q)
        whereConditions == WhereConditions(accepted)
        orderOk == /\ q.OrderBy # <<>>
                   /\ Len(TrimSuffixDesc(q.OrderBy)) = 1
                   /\ TrimSuffixDesc(q.OrderBy)[1] \in allowedFields
    IN [err |-> "",
        query |-> <<"SELECT">> \o SelectFields(q) \o <<"FROM", q.Table>>
                  \o (IF Len(whereConditions) > 0
                      THEN <<"WHERE">> \o JoinWords(whereConditions, "AND") ELSE <<>>)
                  \o (IF orderOk THEN <<"ORDER BY">> \o q.OrderBy ELSE <<>>)
                  \o (IF q.Limit > 0 THEN <<"LIMIT", ToString(q.Limit)>> ELSE <<>>),
        params |-> BoundParams(accepted)]

\* mutant: the table name is not checked
BuildDynamicQuery_AnyTable(q) == QueryText(q)

BuildDynamicQuery(q) ==
    IF q.Table \notin allowedTables
    THEN [err |-> "invalid table name", query |-> <<>>, params |-> <<>>]
    ELSE QueryText(q)

Filter(field, operator, value) == [Field |-> field, Operator |-> operator, Value |-> value]

Tables == allowedTables \cup {"users", "chat_history"}

FieldLists ==
    {<<>>, <<"email">>, <<"password">>, <<"email", "password">>, <<"password", "location">>}

FilterLists ==
    {<<>>,
     <<Filter("email", "=", "v1")>>,
     <<Filter("location", "IS NULL", "v1")>>,
     <<Filter("password", "=", "v1")>>,
     <<Filter("email", "~", "v1")>>,
     <<Filter("budget", ">=", "v1"), Filter("password", "=", "v2"),
       Filter("status", "IS NOT NULL", "v3"), Filter("location", "LIKE", "v4")>>}

OrderBys ==
    {<<>>, <<"email">>, <<"budget", "DESC">>, <<"password">>, <<"email", "DESC", "DESC">>,
     <<"email;", "DROP", "TABLE", "skills">>}

Limits == {-1, 0, 5}

DynamicQueries ==
    [Table : Tables, Fields : FieldLists, Filters : FilterLists, OrderBy : OrderBys,
     Limit : Limits]

InitQuery ==
    /\ EmptyStore
    /\ NoRequests
    /\ \E q \in DynamicQueries : arg = [fn |-> "DynamicQuery", q |-> q]
    /\ ret = NoCallee

CallBuildDynamicQuery ==
    /\ ret.fn = ""
    /\ LET built == BuildDynamicQuery(arg.q)
       IN ret' = [fn |-> "BuildDynamicQuery", err |-> built.err, query |-> built.query,
                  params |-> built.params, executed |-> <<>>]
    /\ UNCHANGED <<now, dbVars, chatVars, arg>>

\* ExecuteDynamicQuery: executed is what app.db.Query was called with; the
\* rows it returns are left out
CallExecuteDynamicQuery ==
    /\ ret.fn = ""
    /\ LET built == BuildDynamicQuery(arg.q)
       IN ret' = [fn |-> "ExecuteDynamicQuery", err |-> built.err, query |-> built.query,
                  params |-> built.params,
                  executed |-> IF built.err # "" THEN <<>>
                               ELSE <<[query |-> built.query, params |-> built.params]>>]
    /\ UNCHANGED <<now, dbVars, chatVars, arg>>

NextQuery ==
    \/ CallBuildDynamicQuery
    \/ CallExecuteDynamicQuery

SpecQuery == InitQuery /\ [][NextQuery]_vars

\* C20: a dynamic query whose table is not caregivers, patients, matches or
\* skills fails with an error, no query text is built for it, and
\* ExecuteDynamicQuery runs no query against the store.
C20_TableWhitelist ==
    ret.fn \in {"BuildDynamicQuery", "ExecuteDynamicQuery"}
    /\ arg.q.Table \notin {"caregivers", "patients", "matches", "skills"} =>
        /\ ret.err # ""
        /\ ret.query = <<>>
        /\ ret.params = <<>>
        /\ ret.executed = <<>>

\* ExecuteDynamicQuery was called for table "users" with columns, filters,
\* an order and a limit that are all acceptable
C20_Witness ==
    /\ ret.fn = "ExecuteDynamicQuery"
    /\ arg.q.Table = "users"
    /\ arg.q.Fields = <<"email">>
    /\ arg.q.Filters = <<Filter("email", "=", "v1")>>
    /\ arg.q.OrderBy = <<"email">>
    /\ arg.q.Limit = 5
    /\ ret.err = "invalid table name"

\* the place of the first word w of a text, 0 if it has none
IndexOf(words, w) ==
    IF \E i \in 1..Len(words) : words[i] = w
    THEN CHOOSE i \in 1..Len(words) : words[i] = w /\ \A j \in 1..(i - 1) : words[j] # w
    ELSE 0

\* the words that follow the keyword kw up to the next of the keywords stops
Clause(words, kw, stops) ==
    LET from == IndexOf(words, kw)
        ends == {i \in (from + 1)..Len(words) : words[i] \in stops}
        to == IF ends = {} THEN Len(words) + 1
              ELSE CHOOSE i \in ends : \A j \in ends : i <= j
    IN IF from = 0 THEN <<>> ELSE SubSeq(words, from + 1, to - 1)

Projection(words) == Clause(words, "SELECT", {"FROM"})

WhereClause(words) == Clause(words, "WHERE", {"ORDER BY", "LIMIT"})

OrderByClause(words) == Clause(words, "ORDER BY", {"LIMIT"})

Built == ret.fn = "BuildDynamicQuery" /\ ret.err = ""

\* C21: every column name in the text BuildDynamicQuery produces, in the
\* projection, in a condition or in the ORDER BY clause, is in the column
\* whitelist, and an ORDER BY clause is a whitelisted column, optionally
\* followed by DESC.
C21_OnlyWhitelistedColumns ==
    Built =>
        LET proj == Projection(ret.query)
            where == WhereClause(ret.query)
            order == OrderByClause(ret.query)
        IN /\ \A w \in Range(proj) : w \in allowedFields \cup {",", "*"}
           /\ \A i \in 1..Len(where) :
                 /\ where[i] \in allowedFields \cup allowedOperators \cup {"?", "AND"}
                 /\ (i = 1 \/ where[i - 1] = "AND") => where[i] \in allowedFields
           /\ IndexOf(ret.query, "ORDER BY") # 0 =>
                 /\ Len(order) \in {1, 2}
                 /\ order[1] \in allowedFields
                 /\ Len(order) = 2 => order[2] = "DESC"

\* a query was built from an unknown column, a filter on an unknown field
\* and a descending order
C21_Witness ==
    /\ Built
    /\ arg.q.Fields = <<"password", "location">>
    /\ Len(arg.q.Filters) = 4
    /\ arg.q.OrderBy = <<"budget", "DESC">>
    /\ OrderByClause(ret.query) = <<"budget", "DESC">>

\* the number of conditions of a WHERE clause
Conditions(where) ==
    IF where = <<>> THEN 0 ELSE 1 + Cardinality({i \in 1..Len(where) : where[i] = "AND"})

\* C22: with a whitelisted table BuildDynamicQuery returns no error; an
\* unknown projection column is left out, a filter with an unknown field or
\* operator adds no condition and no parameter, and an order-by that is not
\* a whitelisted column adds no ORDER BY clause.
C22_UnknownsAreDropped ==
    ret.fn = "BuildDynamicQuery" /\ arg.q.Table \in allowedTables =>
        LET q == arg.q
            where == WhereClause(ret.query)
            known == {i \in 1..Len(q.Filters) :
                         /\ q.Filters[i].Field \in allowedFields
                         /\ q.Filters[i].Operator \in allowedOperators}
        IN /\ ret.err = ""
           /\ \A i \in 1..Len(q.Fields) :
                 q.Fields[i] \notin allowedFields =>
                     q.Fields[i] \notin Range(Projection(ret.query))
           /\ Conditions(where) = Cardinality(known)
           /\ Len(ret.params) <= Cardinality(known)
           /\ \A i \in (1..Len(q.Filters)) \ known :
                 /\ q.Filters[i].Field \in allowedFields \/ q.Filters[i].Field \notin Range(where)
                 /\ q.Filters[i].Operator \in allowedOperators
                       \/ q.Filters[i].Operator \notin Range(where)
                 /\ q.Filters[i].Value \notin Range(ret.params)
           /\ q.OrderBy \notin {<<c>> : c \in allowedFields}
                               \cup {<<c, "DESC">> : c \in allowedFields} =>
                 "ORDER BY" \notin Range(ret.query)

\* a query on patients with an unknown column, a filter with an unknown
\* operator and an unknown order-by column was built without them
C22_Witness ==
    /\ ret.fn = "BuildDynamicQuery"
    /\ arg.q.Fields = <<"email", "password">>
    /\ arg.q.Filters = <<Filter("email", "~", "v1")>>
    /\ arg.q.OrderBy = <<"password">>
    /\ ret.query = <<"SELECT", "email", "FROM", "patients">>
    /\ ret.params = <<>>

NullTests == {"IS NULL", "IS NOT NULL"}

\* C23: an accepted IS NULL or IS NOT NULL filter has no placeholder and no
\* parameter, every other accepted filter has one ? and one parameter, in
\* filter order; there are as many parameters as placeholders and no filter
\* value is in the query text.
C23_ParametersArePlaceholders ==
    Built =>
        LET q == arg.q
            text == ret.query
            Binds(filter) == /\ filter.Field \in allowedFields
                             /\ filter.Operator \in allowedOperators \ NullTests
            binding == SelectSeq(q.Filters, Binds)
        IN /\ Cardinality({i \in 1..Len(text) : text[i] = "?"}) = Len(ret.params)
           /\ ret.params = [i \in 1..Len(binding) |-> binding[i].Value]
           /\ \A i \in 1..Len(text) :
                 /\ text[i] \in NullTests => i = Len(text) \/ text[i + 1] # "?"
                 /\ text[i] \in allowedOperators \ NullTests =>
                       i < Len(text) /\ text[i + 1] = "?"
           /\ \A i \in 1..Len(q.Filters) : q.Filters[i].Value \notin Range(text)

\* a query was built from four filters, of which two bind a value
C23_Witness ==
    /\ Built
    /\ Len(arg.q.Filters) = 4
    /\ ret.params = <<"v1", "v4">>
    /\ "IS NOT NULL" \in Range(ret.query)

\* C30: when none of the listed projection columns is whitelisted the query
\* selects *; the projection is the listed whitelisted columns only when
\* there is at least one.
C30_ProjectionFallsBackToStar ==
    Built =>
        LET q == arg.q
            listed == {q.Fields[i] : i \in 1..Len(q.Fields)} \cap allowedFields
            proj == Projection(ret.query)
        IN IF listed = {}
           THEN proj = <<"*">>
           ELSE Range(proj) \ {","} = listed

\* a query that lists only an unknown column was built
C30_Witness ==
    /\ Built
    /\ arg.q.Fields = <<"password">>
    /\ Projection(ret.query) = <<"*">>

(* ------------------------------ skills --------------------------------- *)
(* AddSkill and RemoveSkill called in any order.                           *)

Skills == {"cpr", "dementia care"}

\* mutant: INSERT ... ON CONFLICT (email, skill) DO REPLACE
AddSkill_Replace(tbl, email, skill, ts) ==
    [err |-> "",
     tbl |-> {r \in tbl : ~(r.email = email /\ r.skill = skill)}
             \cup {[email |-> email, skill |-> skill, created_at |-> ts]}]

\* INSERT INTO skills ... ON CONFLICT (email, skill) DO NOTHING
AddSkill(tbl, email, skill, ts) ==
    [err |-> "",
     tbl |-> IF \E r \in tbl : r.email = email /\ r.skill = skill
             THEN tbl
             ELSE tbl \cup {[email |-> email, skill |-> skill, created_at |-> ts]}]

\* DELETE FROM skills WHERE email = ? AND skill = ?
RemoveSkill(tbl, email, skill) ==
    [err |-> "", tbl |-> {r \in tbl : ~(r.email = email /\ r.skill = skill)}]

InitSkills ==
    /\ EmptyStore
    /\ NoRequests
    /\ arg = NoCallee
    /\ ret = NoCallee

CallAddSkill(email, skill) ==
    /\ \E ts \in {now, now + 1} :
          /\ TimeNow(ts)
          /\ LET got == AddSkill(skills, email, skill, ts)
             IN /\ skills' = got.tbl
                /\ ret' = [fn |-> "AddSkill", email |-> email, skill |-> skill,
                           at |-> ts, err |-> got.err]
    /\ UNCHANGED <<caregivers, patients, chat_history, matches, chatVars, arg>>

CallRemoveSkill(email, skill) ==
    /\ LET got == RemoveSkill(skills, email, skill)
       IN /\ skills' = got.tbl
          /\ ret' = [fn |-> "RemoveSkill", email |-> email, skill |-> skill,
                     at |-> now, err |-> got.err]
    /\ UNCHANGED <<now, caregivers, patients, chat_history, matches, chatVars, arg>>

NextSkills ==
    \/ \E e \in Emails, skill \in Skills : CallAddSkill(e, skill)
    \/ \E e \in Emails, skill \in Skills : CallRemoveSkill(e, skill)

SpecSkills == InitSkills /\ [][NextSkills]_vars

\* C24: the skills table holds at most one row per (email, skill) after
\* every call, and an AddSkill of a pair that has a row returns no error
\* and leaves the table as it was.
C24_AddSkillIdempotent ==
    [][/\ \A r1, r2 \in skills' :
             r1.email = r2.email /\ r1.skill = r2.skill => r1 = r2
       /\ ret'.fn = "AddSkill" =>
             /\ ret'.err = ""
             /\ \E r \in skills' : r.email = ret'.email /\ r.skill = ret'.skill
             /\ (\E r \in skills : r.email = ret'.email /\ r.skill = ret'.skill) =>
                   skills' = skills]_vars

\* a pair was added again at a later clock reading than its row was stored
C24_Witness ==
    /\ ret.fn = "AddSkill"
    /\ ret.err = ""
    /\ \E r \in skills :
          r.email = ret.email /\ r.skill = ret.skill /\ r.created_at < ret.at

\* the texts handleOpenAIResponse builds from the error of a failed store
\* or match
ErrorResponses ==
    {"Error storing caregiver: constraint",
     "Error storing patient: constraint",
     "Error finding matches: patient not found",
     "Error finding matches: caregiver not found"}

\* C25: no entry of the conversation holds the text of the error of a failed
\* store, list or match.
C25_NoErrorTextInConversation ==
    \A m \in chat_history : m.content \notin ErrorResponses

\* C26: when a store_caregiver or store_patient call of a turn reaches the
\* store, a profile row keyed by the turn's email is already there.
C26_ProfileSeededBeforeStore ==
    \A t \in Procs :
       pc[t] \in {"store_caregiver", "store_patient"} =>
          \/ exists[t]
          \/ RowExists(caregivers, sess[t].email)
          \/ RowExists(patients, sess[t].email)

(* ---------------------- the single-session handler --------------------- *)
(* The earlier handleChat: one App for every request, its email context    *)
(* and its messages read and written by the request goroutines with no     *)
(* lock.                                                                   *)

Letters == {LowerCase[i] : i \in 1..26} \cup {UpperCase[i] : i \in 1..26}

LocalChars == Letters \cup {Digits[i] : i \in 1..10} \cup {".", "_", "%", "+", "-"}

DomainChars == Letters \cup {Digits[i] : i \in 1..10} \cup {".", "-"}

\* the end of the longest run of characters of class C that starts at s[i];
\* i - 1 if s[i] is not in C
RunEnd(s, i, C) ==
    CHOOSE j \in (i - 1)..Len(s) :
       /\ \A k \in i..j : s[k] \in C
       /\ j = Len(s) \/ s[j + 1] \notin C

\* the ends m of a domain part that starts at s[p] and is followed by a dot
\* and two letters
DomainEnds(s, p) ==
    {m \in p..(RunEnd(s, p, DomainChars) - 3) :
        s[m + 1] = "." /\ s[m + 2] \in Letters /\ s[m + 3] \in Letters}

\* [a-zA-Z0-9._%+-]+@[a-zA-Z0-9.-]+\.[a-zA-Z]{2,} matches at s[i]
MatchesAt(s, i) ==
    LET a == RunEnd(s, i, LocalChars)
    IN /\ a >= i
       /\ a + 1 <= Len(s)
       /\ s[a + 1] = "@"
       /\ DomainEnds(s, a + 2) # {}

\* emailRegex.FindString: the leftmost match, each repetition as long as
\* the rest of the pattern allows; "" if there is none
FindString(s) ==
    IF \E i \in 1..Len(s) : MatchesAt(s, i)
    THEN LET i == CHOOSE k \in 1..Len(s) :
                     MatchesAt(s, k) /\ \A l \in 1..(k - 1) : ~MatchesAt(s, l)
             p == RunEnd(s, i, LocalChars) + 2
             m == CHOOSE x \in DomainEnds(s, p) : \A y \in DomainEnds(s, p) : y <= x
         IN SubSeq(s, i, RunEnd(s, m + 2, Letters))
    ELSE <<>>

\* the message texts posted to the single-session handler; a text is a
\* sequence of pieces, a posted one of single characters
SessionMessages ==
    {<<"h", "i">>,
     <<"a", "@", "b", ".", "c", "o">>,
     <<"i", "m", " ", "c", "@", "d", ".", "i", "o", "!">>,
     <<"x", "@", "y", ".", "z">>,
     <<"@", "b", ".", "c", "o">>}

\* the earlier AddMessageWithRecipient: the message joins app.messages, cut
\* to the last maxHistory; with an email context it is also inserted into
\* chat_history under that email
SessionAddMessage(room, tbl, role, content, recipient, ts) ==
    LET all == Append(room.messages, [role |-> role, content |-> content])
        kept == IF Len(all) > maxHistory
                THEN SubSeq(all, Len(all) - maxHistory + 1, Len(all))
                ELSE all
        ins == IF room.userContext.Email # <<>>
               THEN AddMessageWithRecipient(tbl, room.userContext.Email, role, content,
                                            IF recipient = "" THEN "admin" ELSE recipient, ts)
               ELSE [ok |-> TRUE, tbl |-> tbl]
    IN [ok |-> ins.ok, tbl |-> ins.tbl, room |-> [room EXCEPT !.messages = kept]]

\* the statement reads the clock only if it inserts a row
SessionClock(room, ts) ==
    IF room.userContext.Email # <<>>
    THEN ts \in {now, now + 1} /\ TimeNow(ts)
    ELSE ts = now /\ UNCHANGED now

\* handleChat, POST: the message is added to the chat
SessionPost(t, m) ==
    /\ Free(t)
    /\ \A u \in Procs : u < t => ~Free(u)
    /\ nextMsg <= MaxTurns
    /\ nextMsg' = nextMsg + 1
    /\ asstAppended' = [asstAppended EXCEPT ![t] = 0]
    /\ \E ts \in {now, now + 1} :
          /\ SessionClock(chatRoom, ts)
          /\ LET add == SessionAddMessage(chatRoom, chat_history, "user", m, "", ts)
             IN /\ chatRoom' = add.room
                /\ chat_history' = add.tbl
                /\ IF add.ok
                   THEN /\ pc' = [pc EXCEPT ![t] = "added"]
                        /\ sess' = [sess EXCEPT ![t] = [email |-> <<>>, message |-> m]]
                        /\ outcome' = [outcome EXCEPT ![t] = ""]
                        /\ UNCHANGED <<transcript, resp, entity, exists, response,
                                       rowWrites>>
                   ELSE Return(t, "Failed to add message")
    /\ UNCHANGED <<caregivers, patients, skills, matches, loaded, arg, ret>>

\* if chatRoom.userContext.Email == "": the context is read and the message
\* searched for an email; with a context or without a match the transcript
\* is built for the model
SessionCheckEmail(t) ==
    /\ pc[t] = "added"
    /\ IF chatRoom.userContext.Email = <<>> /\ FindString(sess[t].message) # <<>>
       THEN /\ pc' = [pc EXCEPT ![t] = "identify"]
            /\ sess' = [sess EXCEPT ![t].email = FindString(sess[t].message)]
            /\ UNCHANGED transcript
       ELSE /\ pc' = [pc EXCEPT ![t] = "built"]
            /\ transcript' = [transcript EXCEPT ![t] = <<systemPrompt>> \o chatRoom.messages]
            /\ UNCHANGED sess
    /\ UNCHANGED <<now, dbVars, chatRoom, resp, entity, exists, response, outcome,
                   nextMsg, asstAppended, rowWrites, loaded, arg, ret>>

\* chatRoom.userContext.Email = email, the thanks are added (an error is
\* only logged) and the handler redirects
SessionIdentify(t) ==
    /\ pc[t] = "identify"
    /\ LET room == [chatRoom EXCEPT !.userContext.Email = sess[t].email]
       IN \E ts \in {now, now + 1} :
             /\ SessionClock(room, ts)
             /\ LET add == SessionAddMessage(room, chat_history, "assistant",
                                             <<"Thank you, ">> \o sess[t].email, "admin", ts)
                IN /\ chatRoom' = add.room
                   /\ chat_history' = add.tbl
                   /\ asstAppended' = [asstAppended EXCEPT ![t] = IF add.ok THEN 1 ELSE 0]
    /\ Return(t, "identified")
    /\ UNCHANGED <<caregivers, patients, skills, matches, nextMsg, loaded, arg, ret>>

\* callOpenAI returns an error
SessionCallOpenAIFail(t) ==
    /\ pc[t] = "built"
    /\ Return(t, "Failed to call OpenAI")
    /\ UNCHANGED <<now, dbVars, chatRoom, nextMsg, asstAppended, loaded, arg, ret>>

\* what the handler does with the reply r: the text it adds ("" for none),
\* and how it ends when the text is stored and when it is not
SessionResponse(r, pts) ==
    LET parsed == GetArguments(r.raw)
        Silent(result) == [text |-> "", stored |-> result, failed |-> result]
    IN IF r.choices = 0 THEN Silent("ok")
       ELSE IF ~r.fc
       THEN [text |-> IF r.content = ""
                      THEN "I need your email address before we proceed. Could you please provide it?"
                      ELSE r.content,
             stored |-> "ok", failed |-> "Failed to add assistant message"]
       ELSE IF ~parsed.ok THEN Silent("Failed to parse function arguments")
       ELSE IF r.name = "list_caregivers"
       THEN [text |-> "Here are the registered caregivers:", stored |-> "ok", failed |-> "ok"]
       ELSE IF r.name = "find_matching_caregivers"
       THEN IF parsed.args["patient_email"].t # "string"
            THEN Silent("")
            ELSE IF ~RowExists(pts, parsed.args["patient_email"].s)
            THEN [text |-> "I'm sorry, I couldn't find any matching caregivers at this time.",
                  stored |-> "", failed |-> ""]
            ELSE [text |-> "Here are the caregivers that match your requirements:",
                  stored |-> "ok", failed |-> "ok"]
       ELSE Silent("ok")

\* callOpenAI returns the reply r and the handler acts on it
SessionReply(t, r) ==
    /\ pc[t] = "built"
    /\ LET todo == SessionResponse(r, patients)
       IN IF todo.text = ""
          THEN /\ Return(t, todo.stored)
               /\ UNCHANGED <<now, chat_history, chatRoom, asstAppended>>
          ELSE \E ts \in {now, now + 1} :
                  /\ SessionClock(chatRoom, ts)
                  /\ LET add == SessionAddMessage(chatRoom, chat_history, "assistant",
                                                  <<todo.text>>, "admin", ts)
                     IN /\ chatRoom' = add.room
                        /\ chat_history' = add.tbl
                        /\ asstAppended' = [asstAppended EXCEPT ![t] = IF add.ok THEN 1 ELSE 0]
                        /\ Return(t, IF add.ok THEN todo.stored ELSE todo.failed)
    /\ UNCHANGED <<caregivers, patients, skills, matches, nextMsg, loaded, arg, ret>>

\* the replies the single-session handler is driven with
SessionReplies ==
    {r \in Replies : r.name \in {"", "list_caregivers", "find_matching_caregivers"}}
    \cup {Reply(1, TRUE, "find_matching_caregivers",
                RawArgs("object", "none",
                        [NoArgs EXCEPT !["patient_email"] = JStr(<<"c", "@", "d", ".", "i", "o">>)]),
                "")}

NextSession ==
    \/ \E t \in Procs, m \in SessionMessages : SessionPost(t, m)
    \/ \E t \in Procs : SessionCheckEmail(t)
    \/ \E t \in Procs : SessionIdentify(t)
    \/ \E t \in Procs : SessionCallOpenAIFail(t)
    \/ \E t \in Procs, r \in SessionReplies : SessionReply(t, r)

SpecSession == Init /\ [][NextSession]_vars

\* C27: the email context is empty until a message holding an email is
\* handled; the turn that sets it takes the email from its message and does
\* not call the model; and a context that is set is never changed.
C27_EmailContextSetOnce ==
    [][/\ chatRoom.userContext.Email # <<>> =>
             chatRoom'.userContext.Email = chatRoom.userContext.Email
       /\ chatRoom'.userContext.Email # chatRoom.userContext.Email =>
             \E t \in Procs :
                /\ pc[t] = "identify"
                /\ pc'[t] = "done"
                /\ transcript[t] = <<>>
                /\ chatRoom'.userContext.Email = FindString(sess[t].message)
                /\ chatRoom'.userContext.Email # <<>>
       /\ \A t \in Procs :
             pc[t] = "added" /\ pc'[t] = "built" =>
                \/ chatRoom.userContext.Email # <<>>
                \/ FindString(sess[t].message) = <<>>]_vars

\* the names of the functions callOpenAI offers to the model
functionDefs ==
    {"store_caregiver", "store_patient", "list_patients", "list_caregivers",
     "find_matching_caregivers", "execute_dynamic_query"}

\* C28: a reply that calls a function of the catalog with decodable
\* arguments reaches a case of the switch, which runs it and logs its
\* result; it never passes the switch with no case taken.
C28_CatalogToolsDispatched ==
    \A t \in Procs, r \in Replies :
       /\ pc[t] = "built"
       /\ r.choices > 0
       /\ r.fc
       /\ GetArguments(r.raw).ok
       /\ r.name \in functionDefs
       => ~ENABLED DispatchUnknown(t, r)

\* the rows of a table keyed by email e
RowsOf(tbl, e) == {r \in tbl : r.email = e}

\* C29: a step changes the caregivers or patients rows keyed by an email
\* only as the store call of a turn of that email; the row a store call
\* builds is keyed by the turn's email whatever the arguments say; and
\* find_matching_caregivers reports no patient exactly when the turn's own
\* email has no patient row.
C29_TurnTouchesOnlyOwnRows ==
    [][/\ \A e \in Emails :
             \/ RowsOf(caregivers', e) # RowsOf(caregivers, e)
             \/ RowsOf(patients', e) # RowsOf(patients, e)
             => \E t \in Procs :
                   /\ sess[t].email = e
                   /\ pc[t] \in {"store_caregiver", "store_patient"}
       /\ \A t \in Procs :
             /\ pc'[t] \in {"store_caregiver", "store_patient"} =>
                   entity'[t].email = sess'[t].email
             /\ pc[t] = "built" /\ pc'[t] = "respond"
                /\ resp'[t].name = "find_matching_caregivers" =>
                   (response'[t] = "Error finding matches: patient not found"
                      <=> ~RowExists(patients, sess[t].email))]_vars

\* a store_caregiver call whose arguments name another email has written the
\* row of the turn's email
C29_Witness ==
    \E t \in Procs :
       /\ pc[t] = "respond"
       /\ resp[t].name = "store_caregiver"
       /\ GetArguments(resp[t].raw).args["email"].t = "string"
       /\ GetArguments(resp[t].raw).args["email"].s # <<sess[t].email>>
       /\ rowWrites[t] = 1
       /\ RowExists(caregivers, sess[t].email)
       /\ \A e \in Emails \ {sess[t].email} : ~RowExists(caregivers, e)

====
